---------------------------- MODULE Spec2Model ----------------------------
(***************************************************************************)
(* Model of batchWriteItem, the batch partitioner/dispatcher of the        *)
(* DynamoDB helper (clients-and-utilities/ts/ddb.ts and js/ddb.js), of     *)
(* the single-request wrappers of ts/ddb.ts, and of the three response     *)
(* modules (the winston logger module, js/response.js, the ts response     *)
(* module).  Each part has its own specification: Spec, SpecWrappers,      *)
(* SpecResponse.                                                           *)
(*                                                                         *)
(* One call is followed from its arguments to its settlement and beyond:   *)
(* the synchronous part (mapping the items to write operations, splitting  *)
(* them with ramda's splitEvery, the map callback sending one              *)
(* BatchWriteCommand per group), the join on Promise.all, and the          *)
(* continuations the event loop runs when the store answers a request.     *)
(*                                                                         *)
(* Group indices are those of the code (0-based); the TLA+ sequences that  *)
(* hold per-group data are 1-based, so group i lives at position i + 1.    *)
(***************************************************************************)
EXTENDS Integers, Sequences, FiniteSets, TLC

(* Longest items list a call is given in the model: three groups and two.  *)
MaxLen == 51

(* splitEvery(25, processedItems)                                          *)
BATCH_SIZE == 25

(* The two modules that define batchWriteItem.                             *)
Variants == {"ts", "js"}

(* action: "put" | "delete"                                                *)
ActionKinds == {"put", "delete"}

(* Table names a caller passes.                                            *)
TableNames == {"orders", "users"}

VARIABLES
    variant,               \* which module's batchWriteItem runs
    pc,                    \* position of the call: idle, map, await, resolved, rejected
    tableName,             \* argument
    action,                \* argument
    items,                 \* argument
    processedItems,        \* the write operations built from the items
    processedItemBatches,  \* splitEvery(25, processedItems)
    batchCount,            \* processedItemBatches.length
    nextBatch,             \* index of the next group the map callback is run on
    req,                   \* per group: "none", "sent", "ok", "err"
    result,                \* per group: what its request settled with
    settleOrder,           \* the group indices in the order their requests settled
    sent,                  \* the commands handed to ddbDocClient.send, in order
    promiseAll,            \* state of Promise.all(batchRequests)
    log,                   \* the objects written with console.log, in order
    thrown,                \* the error the call rejected with
    applied,               \* write operations the store has applied
    wrapper,               \* the call of a single-request wrapper of ts/ddb.ts
    returned,              \* what that call returned to its caller
    requestId,             \* winston logger module: let requestId
    logger,                \* winston logger module: let logger
    initializedThisInvocation, \* initializeContext was called in this invocation
    lastInitContext,       \* the context of the latest initializeContext call
    respCall,              \* the latest call of a response function
    respOutcome            \* what that call returned or threw, and logged

(* The variables of batchWriteItem alone.                                  *)
batchOnlyVars == <<variant, pc, tableName, action, items, processedItems,
                   processedItemBatches, batchCount, nextBatch, req, result,
                   settleOrder, promiseAll, applied>>

(* The client and the console, shared by batchWriteItem and the wrappers.  *)
ioVars == <<sent, log, thrown>>

wrapperVars == <<wrapper, returned>>

responseVars == <<requestId, logger, initializedThisInvocation,
                  lastInitContext, respCall, respOutcome>>

(* What batchWriteItem leaves alone.                                       *)
nonBatchVars == <<wrapperVars, responseVars>>

vars == <<batchOnlyVars, ioVars, wrapperVars, responseVars>>

NoValue == [none |-> TRUE]

(* The string arguments of batchWriteItem before the call: nothing bound.  *)
NoArgument == ""

-----------------------------------------------------------------------------
(* Pure parts                                                              *)

Min(a, b) == IF a < b THEN a ELSE b

(* An item of the caller: a mapping identified by its key.                 *)
Item(k) == [pk |-> k]

ItemsOfLength(n) == [k \in 1..n |-> Item(k)]

(* The else branch missing: every item becomes a PutRequest.               *)
ProcessItems_alwaysPut(act, its) ==
    [k \in 1..Len(its) |-> [PutRequest |-> [Item |-> its[k]]]]

(* items.forEach: PutRequest for "put", DeleteRequest otherwise.           *)
ProcessItems(act, its) ==
    [k \in 1..Len(its) |->
        IF act = "put"
        THEN [PutRequest |-> [Item |-> its[k]]]
        ELSE [DeleteRequest |-> [Key |-> its[k]]]]

(* splitEvery with the loop test idx + n <= length: the last, shorter      *)
(* slice is lost.                                                          *)
RECURSIVE SplitEvery_dropsRemainder(_, _)
SplitEvery_dropsRemainder(n, list) ==
    IF Len(list) < n
    THEN <<>>
    ELSE <<SubSeq(list, 1, n)>>
         \o SplitEvery_dropsRemainder(n, SubSeq(list, n + 1, Len(list)))

(* A chunking that always yields a group: the empty list gives one empty   *)
(* group.                                                                  *)
RECURSIVE SplitEvery_atLeastOne(_, _)
SplitEvery_atLeastOne(n, list) ==
    IF Len(list) <= n
    THEN <<list>>
    ELSE <<SubSeq(list, 1, n)>>
         \o SplitEvery_atLeastOne(n, SubSeq(list, n + 1, Len(list)))

(* Slices with an inclusive end: n + 1 elements each.                      *)
RECURSIVE SplitEvery_inclusiveEnd(_, _)
SplitEvery_inclusiveEnd(n, list) ==
    IF Len(list) = 0
    THEN <<>>
    ELSE <<SubSeq(list, 1, Min(n + 1, Len(list)))>>
         \o SplitEvery_inclusiveEnd(n, SubSeq(list, Min(n + 1, Len(list)) + 1,
                                              Len(list)))

(* ramda splitEvery(n, list): slices of length n taken from the front,     *)
(* the last one holding what is left.                                      *)
RECURSIVE SplitEvery(_, _)
SplitEvery(n, list) ==
    IF Len(list) = 0
    THEN <<>>
    ELSE <<SubSeq(list, 1, Min(n, Len(list)))>>
         \o SplitEvery(n, SubSeq(list, Min(n, Len(list)) + 1, Len(list)))

(* { tableName: batch } without the computed key: the key is the word.     *)
BatchWriteCommand_literalKey(table, batch) ==
    [RequestItems |-> ("tableName" :> batch)]

(* new BatchWriteCommand({ RequestItems: { [tableName]: batch } })         *)
BatchWriteCommand(table, batch) == [RequestItems |-> (table :> batch)]

(* i + "out of " + batchCount                                              *)
BatchNumber(i, count) == <<i, "out of ", count>>

(* JavaScript truthiness of a field of an error object.                    *)
Truthy(obj, field) == field \in DOMAIN obj /\ obj[field] # ""

(* convertErrorObject: duck typing on name, stack and message.             *)
convertErrorObject(errorObject) ==
    IF /\ Truthy(errorObject, "name")
       /\ Truthy(errorObject, "stack")
       /\ Truthy(errorObject, "message")
    THEN [logger   |-> [name    |-> errorObject.name,
                        message |-> errorObject.message,
                        stack   |-> IF Truthy(errorObject, "stack")
                                    THEN errorObject.stack
                                    ELSE "No stack provided"],
          response |-> [name    |-> errorObject.name,
                        message |-> errorObject.message]]
    ELSE [logger |-> errorObject, response |-> errorObject]

(* What the store answers to the request of group i.                       *)
StoreResponse(i) == [UnprocessedItems |-> <<>>, requestOf |-> i]

(* What ddbDocClient.send rejects with for group i: an Error, or a value   *)
(* that is no Error.                                                       *)
StoreErrors(i) ==
    { [name |-> "ProvisionedThroughputExceededException",
       message |-> <<"group", i>>, stack |-> "trace", fault |-> "client"],
      [code |-> <<"group", i>>] }

-----------------------------------------------------------------------------
(* JavaScript values, tagged with their type.  An object is its record of  *)
(* own properties; an Error instance is kept apart from a plain object,    *)
(* because its name, message and stack are not enumerable.                 *)

Null == [type |-> "null"]

Undefined == [type |-> "undefined"]

Str(s) == [type |-> "string", value |-> s]

Num(n) == [type |-> "number", value |-> n]

NoProps == [k \in {} |-> ""]

Obj(props) == [type |-> "object", props |-> props]

ErrorInstance(props) == [type |-> "error", props |-> props]

Bool(b) == [type |-> "boolean", value |-> b]

IsObject(v) == v.type \in {"object", "error"}

(* v.field, and v?.field: undefined where v has no such property.          *)
Get(v, field) ==
    IF IsObject(v) /\ field \in DOMAIN v.props THEN v.props[field] ELSE Undefined

(* A default parameter value: taken when the argument is undefined.        *)
Default(v, d) == IF v.type = "undefined" THEN d ELSE v

(* What JSON.stringify writes for a value: the name, message and stack of  *)
(* an Error instance are not enumerable and are left out.                  *)
JsonOf(v) ==
    IF v.type = "error"
    THEN Obj([k \in (DOMAIN v.props) \ {"name", "message", "stack"} |-> v.props[k]])
    ELSE v

(* JSON.stringify(o) of an object literal o, as the value the text parses  *)
(* to: properties whose value is undefined are left out.                   *)
JSONstringify(o) ==
    [json |-> [k \in {f \in DOMAIN o : o[f].type # "undefined"} |-> JsonOf(o[k])]]

(* if (v): null, undefined, "" and 0 are falsy.                            *)
IsTruthy(v) ==
    /\ v.type \notin {"null", "undefined"}
    /\ v.type = "string" => v.value # ""
    /\ v.type = "number" => v.value # 0

(* a || b                                                                  *)
OrElse(a, b) == IF IsTruthy(a) THEN a ELSE b

-----------------------------------------------------------------------------
Init ==
    /\ variant \in Variants
    /\ pc = "idle"
    /\ tableName = NoArgument
    /\ action = NoArgument
    /\ items = <<>>
    /\ processedItems = <<>>
    /\ processedItemBatches = <<>>
    /\ batchCount = 0
    /\ nextBatch = 0
    /\ req = <<>>
    /\ result = <<>>
    /\ settleOrder = <<>>
    /\ sent = <<>>
    /\ promiseAll = [state |-> "none"]
    /\ log = <<>>
    /\ thrown = NoValue
    /\ applied = {}
    /\ wrapper = [pc |-> "idle"]
    /\ returned = NoValue
    /\ requestId = Null
    /\ logger = [defaultMeta |-> Undefined]
    /\ initializedThisInvocation = FALSE
    /\ lastInitContext = Undefined
    /\ respCall = [module |-> "none"]
    /\ respOutcome = [kind |-> "none"]

(* The call: arguments bound, write operations built and split.            *)
BatchWriteItem(table, act, its) ==
    /\ pc = "idle"
    /\ pc' = "map"
    /\ tableName' = table
    /\ action' = act
    /\ items' = its
    /\ processedItems' = ProcessItems(act, its)
    /\ processedItemBatches' = SplitEvery(BATCH_SIZE, ProcessItems(act, its))
    /\ batchCount' = Len(SplitEvery(BATCH_SIZE, ProcessItems(act, its)))
    /\ nextBatch' = 0
    /\ req' = [k \in 1..Len(SplitEvery(BATCH_SIZE, ProcessItems(act, its))) |-> "none"]
    /\ result' = [k \in 1..Len(SplitEvery(BATCH_SIZE, ProcessItems(act, its))) |-> NoValue]
    /\ UNCHANGED <<nonBatchVars, variant, settleOrder, sent, promiseAll, log, thrown, applied>>

(* The map callback on group nextBatch, up to its await: the command is    *)
(* built and handed to ddbDocClient.send.                                  *)
Dispatch ==
    /\ pc = "map"
    /\ nextBatch < batchCount
    /\ sent' = Append(sent, BatchWriteCommand(tableName,
                                processedItemBatches[nextBatch + 1]))
    /\ req' = [req EXCEPT ![nextBatch + 1] = "sent"]
    /\ nextBatch' = nextBatch + 1
    /\ UNCHANGED <<nonBatchVars, variant, pc, tableName, action, items, processedItems,
                   processedItemBatches, batchCount, result, settleOrder,
                   promiseAll, log, thrown, applied>>

(* Promise.all(batchRequests) without its await: the call returns with    *)
(* the requests in flight.                                                 *)
PromiseAll_notAwaited ==
    /\ pc = "map"
    /\ nextBatch = batchCount
    /\ pc' = "resolved"
    /\ promiseAll' = IF batchCount = 0
                     THEN [state |-> "fulfilled"]
                     ELSE [state |-> "pending"]
    /\ UNCHANGED <<nonBatchVars, variant, tableName, action, items, processedItems,
                   processedItemBatches, batchCount, nextBatch, req, result,
                   settleOrder, sent, log, thrown, applied>>

(* A join that is fulfilled by the last fulfilment to come in: with no     *)
(* promise to wait for it stays pending.                                   *)
PromiseAll_emptyStaysPending ==
    /\ pc = "map"
    /\ nextBatch = batchCount
    /\ pc' = "await"
    /\ promiseAll' = [state |-> "pending"]
    /\ UNCHANGED <<nonBatchVars, variant, tableName, action, items, processedItems,
                   processedItemBatches, batchCount, nextBatch, req, result,
                   settleOrder, sent, log, thrown, applied>>

(* await Promise.all(batchRequests): an empty list is fulfilled at once.   *)
PromiseAll ==
    /\ pc = "map"
    /\ nextBatch = batchCount
    /\ pc' = "await"
    /\ promiseAll' = IF batchCount = 0
                     THEN [state |-> "fulfilled"]
                     ELSE [state |-> "pending"]
    /\ UNCHANGED <<nonBatchVars, variant, tableName, action, items, processedItems,
                   processedItemBatches, batchCount, nextBatch, req, result,
                   settleOrder, sent, log, thrown, applied>>

(* An await inside the loop: the event loop runs continuations between    *)
(* two sends.                                                              *)
EventLoopFree_yields == pc # "idle"

(* Continuations run only when the synchronous part has run to its await.  *)
EventLoopFree == pc \in {"await", "resolved", "rejected"}

(* Siblings aborted once the join has rejected.                            *)
Outstanding_abortedOnFailure(i) ==
    /\ i \in 0..(batchCount - 1)
    /\ req[i + 1] = "sent"
    /\ promiseAll.state # "rejected"

(* A request that was sent and has not settled.  No abort signal is        *)
(* handed to send, so nothing but the store's answer ends it.              *)
Outstanding(i) == i \in 0..(batchCount - 1) /\ req[i + 1] = "sent"

(* input: processedItems in the place of input: batch.                     *)
CompleteLog_wholeInput(i, res) ==
    [message          |-> "Complete batchWrite",
     batch_number     |-> BatchNumber(i, batchCount),
     command_response |-> res,
     input            |-> processedItems]

(* The record the callback logs once its request is answered.              *)
CompleteLog(i, res) ==
    [message          |-> "Complete batchWrite",
     batch_number     |-> BatchNumber(i, batchCount),
     command_response |-> res,
     input            |-> processedItemBatches[i + 1]]

(* The record the catch block of the ts module logs.                       *)
FailLog(e) ==
    [message |-> "Fail to batchWriteItem",
     action  |-> action,
     items   |-> items,
     error   |-> convertErrorObject(e).logger]

(* Promise.race in the place of Promise.all: the first fulfilment settles  *)
(* the join.                                                               *)
AllOnFulfilled_race(p, i) ==
    IF p.state = "pending" THEN [state |-> "fulfilled"] ELSE p

(* Promise.all when the promise of group i is fulfilled: fulfilled once    *)
(* every promise is.                                                       *)
AllOnFulfilled(p, i) ==
    IF /\ p.state = "pending"
       /\ \A k \in 1..batchCount : k # i + 1 => req[k] = "ok"
    THEN [state |-> "fulfilled"]
    ELSE p

(* The callbacks' rejections swallowed (a .catch on each request): a       *)
(* failed group counts as done.                                            *)
AllOnRejected_swallowed(p, i, e) ==
    IF /\ p.state = "pending"
       /\ \A k \in 1..batchCount : k # i + 1 => req[k] \in {"ok", "err"}
    THEN [state |-> "fulfilled"]
    ELSE p

(* A join that keeps the reason of the last rejection.                     *)
AllOnRejected_lastWins(p, i, e) ==
    IF p.state \in {"pending", "rejected"}
    THEN [state |-> "rejected", reason |-> e]
    ELSE p

(* Promise.all when the promise of group i is rejected with e: rejected    *)
(* with e unless settled already.                                          *)
AllOnRejected(p, i, e) ==
    IF p.state = "pending"
    THEN [state |-> "rejected", reason |-> e]
    ELSE p

(* The writes of a batch, as the store holds them.                         *)
Writes(table, batch) == { <<table, batch[k]>> : k \in 1..Len(batch) }

(* The store answers group i: its writes are applied, the callback logs    *)
(* "Complete batchWrite" and its promise is fulfilled.                     *)
SendOk(i) ==
    /\ EventLoopFree
    /\ Outstanding(i)
    /\ req' = [req EXCEPT ![i + 1] = "ok"]
    /\ result' = [result EXCEPT ![i + 1] = StoreResponse(i)]
    /\ settleOrder' = Append(settleOrder, i)
    /\ applied' = applied \cup Writes(tableName, processedItemBatches[i + 1])
    /\ log' = Append(log, CompleteLog(i, StoreResponse(i)))
    /\ promiseAll' = AllOnFulfilled(promiseAll, i)
    /\ UNCHANGED <<nonBatchVars, variant, pc, tableName, action, items, processedItems,
                   processedItemBatches, batchCount, nextBatch, sent, thrown>>

(* A failed request sent again.                                            *)
SendFail_retry(i, e) ==
    /\ EventLoopFree
    /\ Outstanding(i)
    /\ sent' = Append(sent, BatchWriteCommand(tableName,
                                processedItemBatches[i + 1]))
    /\ UNCHANGED <<nonBatchVars, variant, pc, tableName, action, items, processedItems,
                   processedItemBatches, batchCount, nextBatch, req, result,
                   settleOrder, promiseAll, log, thrown, applied>>

(* The request of group i fails with e: the callback throws at its await,  *)
(* logging nothing, and its promise is rejected.                           *)
SendFail(i, e) ==
    /\ EventLoopFree
    /\ Outstanding(i)
    /\ req' = [req EXCEPT ![i + 1] = "err"]
    /\ result' = [result EXCEPT ![i + 1] = e]
    /\ settleOrder' = Append(settleOrder, i)
    /\ promiseAll' = AllOnRejected(promiseAll, i, e)
    /\ UNCHANGED <<nonBatchVars, variant, pc, tableName, action, items, processedItems,
                   processedItemBatches, batchCount, nextBatch, sent, log,
                   thrown, applied>>

(* Promise.all fulfilled: the call returns.                                *)
Resolve ==
    /\ pc = "await"
    /\ promiseAll.state = "fulfilled"
    /\ pc' = "resolved"
    /\ UNCHANGED <<nonBatchVars, variant, tableName, action, items, processedItems,
                   processedItemBatches, batchCount, nextBatch, req, result,
                   settleOrder, sent, promiseAll, log, thrown, applied>>

(* A catch block that undoes the writes of the groups that succeeded.      *)
Reject_rollback ==
    /\ pc = "await"
    /\ promiseAll.state = "rejected"
    /\ pc' = "rejected"
    /\ thrown' = promiseAll.reason
    /\ applied' = {}
    /\ log' = IF variant = "ts"
              THEN Append(log, FailLog(promiseAll.reason))
              ELSE log
    /\ UNCHANGED <<nonBatchVars, variant, tableName, action, items, processedItems,
                   processedItemBatches, batchCount, nextBatch, req, result,
                   settleOrder, sent, promiseAll>>

(* A catch block without its throw: the failure is logged and the call     *)
(* returns.                                                                *)
Reject_swallows ==
    /\ pc = "await"
    /\ promiseAll.state = "rejected"
    /\ pc' = "resolved"
    /\ log' = IF variant = "ts"
              THEN Append(log, FailLog(promiseAll.reason))
              ELSE log
    /\ UNCHANGED <<nonBatchVars, variant, tableName, action, items, processedItems,
                   processedItemBatches, batchCount, nextBatch, req, result,
                   settleOrder, sent, promiseAll, thrown, applied>>

(* Promise.all rejected.  ts: the catch block logs "Fail to batchWriteItem"*)
(* and rethrows.  js: there is no try, the rejection goes to the caller.   *)
Reject ==
    /\ pc = "await"
    /\ promiseAll.state = "rejected"
    /\ pc' = "rejected"
    /\ thrown' = promiseAll.reason
    /\ log' = IF variant = "ts"
              THEN Append(log, FailLog(promiseAll.reason))
              ELSE log
    /\ UNCHANGED <<nonBatchVars, variant, tableName, action, items, processedItems,
                   processedItemBatches, batchCount, nextBatch, req, result,
                   settleOrder, sent, promiseAll, applied>>

Next ==
    \/ \E table \in TableNames, act \in ActionKinds, n \in 0..MaxLen :
           BatchWriteItem(table, act, ItemsOfLength(n))
    \/ Dispatch
    \/ PromiseAll
    \/ \E i \in 0..(batchCount - 1) : SendOk(i)
    \/ \E i \in 0..(batchCount - 1) : \E e \in StoreErrors(i) : SendFail(i, e)
    \/ Resolve
    \/ Reject

Spec == Init /\ [][Next]_vars

(* The position of the call in its code.                                   *)
position == <<pc, nextBatch>>

(* The steps the JavaScript run time takes by itself: the synchronous part *)
(* of the call runs to its await, and the continuation of a settled        *)
(* Promise.all is run.  When the store answers is left open.               *)
Fairness ==
    /\ WF_position(Dispatch)
    /\ WF_position(PromiseAll)
    /\ WF_position(Resolve)
    /\ WF_position(Reject)

SpecFair == Spec /\ Fairness

-----------------------------------------------------------------------------
(* The single-request wrappers of ts/ddb.ts and js/ddb.js: one command     *)
(* sent, the answer logged and returned, or the failure handed to the      *)
(* caller, logged first where the body is a try with a catch.  No wrapper  *)
(* of js/ddb.js has a try.                                                 *)

WrapperNames ==
    {"putItem", "getItem", "updateItem", "deleteItem", "scanTable",
     "queryItems", "executeStmt", "batchExecuteStmt"}

(* The wrappers of ts/ddb.ts whose body is a try with a catch.             *)
CatchingWrappers ==
    {"putItem", "getItem", "updateItem", "deleteItem", "scanTable"}

(* The body of wrapper fn is a try with a catch, in the module in use.     *)
HasCatch(fn) == variant = "ts" /\ fn \in CatchingWrappers

(* new PutCommand(input), new GetCommand(input), ...                       *)
CommandOf(fn) ==
    CASE fn = "putItem"          -> "PutCommand"
      [] fn = "getItem"          -> "GetCommand"
      [] fn = "updateItem"       -> "UpdateCommand"
      [] fn = "deleteItem"       -> "DeleteCommand"
      [] fn = "scanTable"        -> "ScanCommand"
      [] fn = "queryItems"       -> "QueryCommand"
      [] fn = "executeStmt"      -> "ExecuteStatementCommand"
      [] fn = "batchExecuteStmt" -> "BatchExecuteStatementCommand"

(* message of the record logged on success; scanTable logs getItems.       *)
CompleteMessage(fn) ==
    CASE fn = "putItem"          -> "Complete putItem"
      [] fn = "getItem"          -> "Complete getItem"
      [] fn = "updateItem"       -> "Complete updateItem"
      [] fn = "deleteItem"       -> "Complete deleteItem"
      [] fn = "scanTable"        -> "Complete getItems"
      [] fn = "queryItems"       -> "Complete queryItems"
      [] fn = "executeStmt"      -> "Complete executeStmt"
      [] fn = "batchExecuteStmt" -> "Complete batchExecuteStmt"

(* message of the record logged in the catch block.                        *)
FailMessage(fn) ==
    CASE fn = "putItem"    -> "Fail to putItem"
      [] fn = "getItem"    -> "Fail to getItem"
      [] fn = "updateItem" -> "Fail to updateItem"
      [] fn = "deleteItem" -> "Fail to deleteItem"
      [] fn = "scanTable"  -> "Fail to scanTable"

(* The inputs and the actionFor a caller passes; actionFor may be left out.*)
WrapperInputs ==
    { [TableName |-> "orders", Key |-> [pk |-> 1]],
      [TableName |-> "users", Key |-> [pk |-> 2]] }

ActionFors == {Undefined, Str("create order")}

(* What the store answers, and what send rejects with.                     *)
WrapperResponses ==
    { [httpStatusCode |-> 200, Attributes |-> [pk |-> 1]],
      [httpStatusCode |-> 200, Attributes |-> [pk |-> 2]] }

WrapperErrors ==
    { [name |-> "ConditionalCheckFailedException",
       message |-> "The conditional request failed",
       stack |-> "trace", fault |-> "client"],
      [code |-> "ECONNRESET"] }

(* { message, input, command_response }                                    *)
WrapperCompleteLog(fn, input, res) ==
    [message          |-> CompleteMessage(fn),
     input            |-> input,
     command_response |-> res]

(* { message, input, actionFor, error }; JSON.stringify leaves out an      *)
(* actionFor that is undefined.                                            *)
WrapperFailLog(fn, input, actionFor, e) ==
    IF actionFor.type = "undefined"
    THEN [message |-> FailMessage(fn),
          input   |-> input,
          error   |-> convertErrorObject(e).logger]
    ELSE [message   |-> FailMessage(fn),
          input     |-> input,
          actionFor |-> actionFor.value,
          error     |-> convertErrorObject(e).logger]

(* The call, up to its await: the command is handed to ddbDocClient.send.  *)
WrapperCall(fn, input, actionFor) ==
    /\ wrapper.pc = "idle"
    /\ pc = "idle"
    /\ wrapper' = [pc |-> "sent", fn |-> fn, input |-> input,
                   actionFor |-> actionFor]
    /\ sent' = Append(sent, [command |-> CommandOf(fn), input |-> input])
    /\ UNCHANGED <<batchOnlyVars, log, thrown, returned, responseVars>>

(* The store answers: the record is logged and the answer returned.        *)
WrapperOk(res) ==
    /\ wrapper.pc = "sent"
    /\ wrapper' = [pc |-> "returned", fn |-> wrapper.fn,
                   input |-> wrapper.input, actionFor |-> wrapper.actionFor,
                   answer |-> res]
    /\ log' = Append(log, WrapperCompleteLog(wrapper.fn, wrapper.input, res))
    /\ returned' = res
    /\ UNCHANGED <<batchOnlyVars, sent, thrown, responseVars>>

(* throw log.error in the place of throw e.                                *)
WrapperFail_wrapped(e) ==
    /\ wrapper.pc = "sent"
    /\ wrapper' = [pc |-> "threw", fn |-> wrapper.fn,
                   input |-> wrapper.input, actionFor |-> wrapper.actionFor,
                   answer |-> e]
    /\ log' = IF HasCatch(wrapper.fn)
              THEN Append(log, WrapperFailLog(wrapper.fn, wrapper.input,
                                              wrapper.actionFor, e))
              ELSE log
    /\ thrown' = IF HasCatch(wrapper.fn)
                 THEN convertErrorObject(e).logger
                 ELSE e
    /\ UNCHANGED <<batchOnlyVars, sent, returned, responseVars>>

(* send rejects with e: the catch block, where there is one (ts), logs the *)
(* failure and rethrows e; without a try (js, and queryItems, executeStmt  *)
(* and batchExecuteStmt of ts) nothing is logged.  e reaches the caller.   *)
WrapperFail(e) ==
    /\ wrapper.pc = "sent"
    /\ wrapper' = [pc |-> "threw", fn |-> wrapper.fn,
                   input |-> wrapper.input, actionFor |-> wrapper.actionFor,
                   answer |-> e]
    /\ log' = IF HasCatch(wrapper.fn)
              THEN Append(log, WrapperFailLog(wrapper.fn, wrapper.input,
                                              wrapper.actionFor, e))
              ELSE log
    /\ thrown' = e
    /\ UNCHANGED <<batchOnlyVars, sent, returned, responseVars>>

NextWrappers ==
    \/ \E fn \in WrapperNames, input \in WrapperInputs, actionFor \in ActionFors :
           WrapperCall(fn, input, actionFor)
    \/ \E res \in WrapperResponses : WrapperOk(res)
    \/ \E e \in WrapperErrors : WrapperFail(e)

SpecWrappers == Init /\ [][NextWrappers]_vars

-----------------------------------------------------------------------------
(* The response modules: the winston logger module (okResponse,            *)
(* errResponse, initializeContext, with requestId and logger as module     *)
(* state), js/response.js and the ts response module.  A call is kept in   *)
(* respCall with its arguments, and what it returned or threw and what it  *)
(* logged in respOutcome.                                                  *)

Headers ==
    ("Access-Control-Allow-Origin" :> Str("*"))
        @@ ("Access-Control-Allow-Credentials" :> Bool(TRUE))

(* The duck typing of the error object: name, stack and message truthy.    *)
IsRichError(errorObject) ==
    /\ IsTruthy(errorObject)
    /\ IsTruthy(Get(errorObject, "name"))
    /\ IsTruthy(Get(errorObject, "stack"))
    /\ IsTruthy(Get(errorObject, "message"))

(* The stack line of constructedError put back in.                         *)
ConstructedError_exposesStack(errorObject) ==
    IF IsRichError(errorObject)
    THEN Obj([name    |-> Get(errorObject, "name"),
              message |-> Get(errorObject, "message"),
              stack   |-> Get(errorObject, "stack")])
    ELSE errorObject

(* constructedError of errResponse, in the winston module and in           *)
(* response.js.                                                            *)
ConstructedError(errorObject) ==
    IF IsRichError(errorObject)
    THEN Obj([name    |-> Get(errorObject, "name"),
              message |-> Get(errorObject, "message")])
    ELSE errorObject

(* convertErrorObject of the ts response module.                           *)
convertErrorObjectResponse(errorObject) ==
    IF IsRichError(errorObject)
    THEN [logger   |-> Obj([name    |-> Get(errorObject, "name"),
                            message |-> Get(errorObject, "message"),
                            stack   |-> OrElse(Get(errorObject, "stack"),
                                               Str("No stack provided"))]),
          response |-> Obj([name    |-> Get(errorObject, "name"),
                            message |-> Get(errorObject, "message")])]
    ELSE [logger |-> errorObject, response |-> errorObject]

(* rid of response.js: the awsRequestId of the context, or the context     *)
(* itself, or null.                                                        *)
Rid(context) ==
    IF IsTruthy(context)
    THEN IF IsTruthy(Get(context, "awsRequestId"))
         THEN Get(context, "awsRequestId")
         ELSE context
    ELSE Null

(* logger.info / logger.error of winston: the record handed to the logger, *)
(* with the default meta of the logger in use.                             *)
WinstonLog(level, message, meta) ==
    [level |-> level, message |-> message, meta |-> meta,
     defaultMeta |-> logger.defaultMeta]

(* ---- winston logger module ---- *)

okResponseWinston(message, data) ==
    LET d == Default(data, Obj(NoProps))
    IN  [kind   |-> "returned",
         logged |-> <<WinstonLog("info", message, d)>>,
         value  |-> [statusCode |-> Num(200),
                     headers    |-> Headers,
                     body       |-> JSONstringify(
                                        [request_id  |-> requestId,
                                         status_code |-> Num(200),
                                         message     |-> message,
                                         data        |-> d])]]

errResponseWinston(statusCode, message, errorObject) ==
    LET e == Default(errorObject, Obj(NoProps))
    IN  [kind   |-> "returned",
         logged |-> <<WinstonLog("error", message, ConstructedError(e))>>,
         value  |-> [statusCode |-> statusCode,
                     headers    |-> Headers,
                     body       |-> JSONstringify(
                                        [request_id  |-> requestId,
                                         status_code |-> statusCode,
                                         message     |-> message,
                                         error       |-> ConstructedError(e)])]]

(* defaultMeta of the logger initializeContext creates.                    *)
DefaultMeta(event, context) ==
    [requestId |-> OrElse(Get(context, "awsRequestId"), Null),
     service   |-> OrElse(Get(context, "functionName"), Null),
     timestamp |-> OrElse(Get(Get(event, "requestContext"), "requestTimeEpoch"),
                          Str("new Date().getTime()"))]

(* The "Request Context" record, logged when the event has one.            *)
RequestContextLog(event, context) ==
    IF IsTruthy(Get(event, "requestContext"))
    THEN <<[level   |-> "info",
            message |-> Str("Request Context"),
            meta    |-> [identity |-> Get(event, "requestContext"),
                         payload  |->
                             [queryStringParameters |->
                                  OrElse(Get(event, "queryStringParameters"), Null),
                              pathParameters |->
                                  OrElse(Get(event, "pathParameters"), Null),
                              body |-> OrElse(Get(event, "body"), Null)]],
            defaultMeta |-> DefaultMeta(event, context)]>>
    ELSE <<>>

(* ---- js/response.js ---- *)

(* logger is no binding of response.js: logger.info throws.                *)
ReferenceError ==
    ErrorInstance([name    |-> Str("ReferenceError"),
                   message |-> Str("logger is not defined"),
                   stack   |-> Str("trace")])

okResponseJs(message, context, data) ==
    LET c == Default(context, Null)
        d == Default(data, Obj(NoProps))
    IN  [kind   |-> "threw",
         logged |-> <<[message |-> message, data |-> d, requestId |-> Rid(c)]>>,
         error  |-> ReferenceError]

errResponseJs(statusCode, message, context, errorObject) ==
    LET c == Default(context, Null)
        e == Default(errorObject, Obj(NoProps))
    IN  [kind   |-> "returned",
         logged |-> <<[message    |-> message,
                       error      |-> e,
                       requestId  |-> Rid(c),
                       errorStack |-> Get(e, "stack")]>>,
         value  |-> [statusCode |-> statusCode,
                     headers    |-> Headers,
                     body       |-> JSONstringify(
                                        [request_id  |-> Rid(c),
                                         status_code |-> statusCode,
                                         message     |-> message,
                                         error       |-> ConstructedError(e)])]]

(* ---- ts response module ---- *)

(* statusCode: 200 written in the place of statusCode: statusCode.         *)
okResponseTs_always200(rid, message, data, statusCode) ==
    LET d == Default(data, Obj(NoProps))
    IN  [kind   |-> "returned",
         logged |-> <<JSONstringify([message |-> message, requestId |-> rid,
                                     data |-> d])>>,
         value  |-> [statusCode |-> Num(200),
                     headers    |-> Headers,
                     body       |-> JSONstringify(
                                        [requestId  |-> rid,
                                         statusCode |-> Num(200),
                                         message    |-> message,
                                         data       |-> d])]]

okResponseTs(rid, message, data, statusCode) ==
    LET d  == Default(data, Obj(NoProps))
        sc == Default(statusCode, Num(200))
    IN  [kind   |-> "returned",
         logged |-> <<JSONstringify([message |-> message, requestId |-> rid,
                                     data |-> d])>>,
         value  |-> [statusCode |-> sc,
                     headers    |-> Headers,
                     body       |-> JSONstringify(
                                        [requestId  |-> rid,
                                         statusCode |-> Num(200),
                                         message    |-> message,
                                         data       |-> d])]]

errResponseTs(rid, statusCode, message, errorObject) ==
    LET e == Default(errorObject, Obj(NoProps))
    IN  [kind   |-> "returned",
         logged |-> <<JSONstringify([message |-> message, requestId |-> rid,
                                     errorObject |-> e])>>,
         value  |-> [statusCode |-> statusCode,
                     headers    |-> Headers,
                     body       |-> JSONstringify(
                                        [requestId  |-> rid,
                                         statusCode |-> statusCode,
                                         message    |-> message,
                                         error      |->
                                             convertErrorObjectResponse(e).response])]]

(* ---- the arguments callers pass ---- *)

Messages == {Str("Success"), Str("Bad Request")}

Datas == {Undefined, Null, Obj([key |-> Str("value")])}

ErrStatusCodes == {Num(400), Num(500)}

OkStatusCodes == {Undefined, Num(200), Num(201)}

RequestIds == {Str("req-1"), Str("req-2")}

Contexts ==
    { Undefined, Null, Str("own-request-id"),
      Obj([awsRequestId |-> Str("req-1"), functionName |-> Str("handler")]),
      Obj([awsRequestId |-> Str("req-2"), functionName |-> Str("handler")]),
      Obj([functionName |-> Str("handler")]) }

Events ==
    { Undefined, Null,
      Obj([requestContext |-> Obj([requestTimeEpoch |-> Num(1)]),
           body |-> Str("{}")]) }

ErrorObjects ==
    { Undefined, Null,
      ErrorInstance([name |-> Str("TypeError"), message |-> Str("boom"),
                     stack |-> Str("trace")]),
      ErrorInstance([name |-> Str("Error"), message |-> Str(""),
                     stack |-> Str("trace")]),
      Obj([name |-> Str("CustomError"), message |-> Str("boom"),
           stack |-> Str("trace")]),
      Obj([name |-> Str("CustomError"), message |-> Str(""),
           stack |-> Str("trace")]),
      Obj([code |-> Str("E42"), description |-> Str("Internal Server Error")]) }

(* ---- the calls ---- *)

(* The next invocation of the handler in the same container: the module    *)
(* and its state stay loaded.                                              *)
NewInvocation ==
    /\ initializedThisInvocation
    /\ initializedThisInvocation' = FALSE
    /\ UNCHANGED <<batchOnlyVars, ioVars, wrapperVars, requestId, logger,
                   lastInitContext, respCall, respOutcome>>

(* requestId set once and kept: requestId = requestId || ...               *)
InitializeContext_keepsFirst(event, context) ==
    /\ requestId' = OrElse(requestId,
                           OrElse(Get(Default(context, Null), "awsRequestId"),
                                  Null))
    /\ logger' = [defaultMeta |-> DefaultMeta(Default(event, Null),
                                              Default(context, Null))]
    /\ initializedThisInvocation' = TRUE
    /\ lastInitContext' = Default(context, Null)
    /\ respCall' = [module |-> "winston", fn |-> "initializeContext",
                    event |-> event, context |-> context]
    /\ respOutcome' = [kind   |-> "returned",
                       logged |-> RequestContextLog(Default(event, Null),
                                                    Default(context, Null)),
                       value  |-> Undefined]
    /\ UNCHANGED <<batchOnlyVars, ioVars, wrapperVars>>

InitializeContext(event, context) ==
    /\ requestId' = OrElse(Get(Default(context, Null), "awsRequestId"), Null)
    /\ logger' = [defaultMeta |-> DefaultMeta(Default(event, Null),
                                              Default(context, Null))]
    /\ initializedThisInvocation' = TRUE
    /\ lastInitContext' = Default(context, Null)
    /\ respCall' = [module |-> "winston", fn |-> "initializeContext",
                    event |-> event, context |-> context]
    /\ respOutcome' = [kind   |-> "returned",
                       logged |-> RequestContextLog(Default(event, Null),
                                                    Default(context, Null)),
                       value  |-> Undefined]
    /\ UNCHANGED <<batchOnlyVars, ioVars, wrapperVars>>

OkResponseWinston(message, data) ==
    /\ respCall' = [module |-> "winston", fn |-> "okResponse",
                    message |-> message, data |-> data,
                    initialized |-> initializedThisInvocation]
    /\ respOutcome' = okResponseWinston(message, data)
    /\ UNCHANGED <<batchOnlyVars, ioVars, wrapperVars, requestId, logger,
                   initializedThisInvocation, lastInitContext>>

ErrResponseWinston(statusCode, message, errorObject) ==
    /\ respCall' = [module |-> "winston", fn |-> "errResponse",
                    statusCode |-> statusCode, message |-> message,
                    errorObject |-> errorObject,
                    initialized |-> initializedThisInvocation]
    /\ respOutcome' = errResponseWinston(statusCode, message, errorObject)
    /\ UNCHANGED <<batchOnlyVars, ioVars, wrapperVars, requestId, logger,
                   initializedThisInvocation, lastInitContext>>

OkResponseJs(message, context, data) ==
    /\ respCall' = [module |-> "js", fn |-> "okResponse",
                    message |-> message, context |-> context, data |-> data]
    /\ respOutcome' = okResponseJs(message, context, data)
    /\ UNCHANGED <<batchOnlyVars, ioVars, wrapperVars, requestId, logger,
                   initializedThisInvocation, lastInitContext>>

ErrResponseJs(statusCode, message, context, errorObject) ==
    /\ respCall' = [module |-> "js", fn |-> "errResponse",
                    statusCode |-> statusCode, message |-> message,
                    context |-> context, errorObject |-> errorObject]
    /\ respOutcome' = errResponseJs(statusCode, message, context, errorObject)
    /\ UNCHANGED <<batchOnlyVars, ioVars, wrapperVars, requestId, logger,
                   initializedThisInvocation, lastInitContext>>

OkResponseTs(rid, message, data, statusCode) ==
    /\ respCall' = [module |-> "ts", fn |-> "okResponse",
                    requestId |-> rid, message |-> message, data |-> data,
                    statusCode |-> statusCode]
    /\ respOutcome' = okResponseTs(rid, message, data, statusCode)
    /\ UNCHANGED <<batchOnlyVars, ioVars, wrapperVars, requestId, logger,
                   initializedThisInvocation, lastInitContext>>

ErrResponseTs(rid, statusCode, message, errorObject) ==
    /\ respCall' = [module |-> "ts", fn |-> "errResponse",
                    requestId |-> rid, statusCode |-> statusCode,
                    message |-> message, errorObject |-> errorObject]
    /\ respOutcome' = errResponseTs(rid, statusCode, message, errorObject)
    /\ UNCHANGED <<batchOnlyVars, ioVars, wrapperVars, requestId, logger,
                   initializedThisInvocation, lastInitContext>>

NextResponse ==
    \/ NewInvocation
    \/ \E event \in Events, context \in Contexts :
           InitializeContext(event, context)
    \/ \E message \in Messages, data \in Datas :
           OkResponseWinston(message, data)
    \/ \E statusCode \in ErrStatusCodes, message \in Messages,
          errorObject \in ErrorObjects :
           ErrResponseWinston(statusCode, message, errorObject)
    \/ \E message \in Messages, context \in Contexts, data \in Datas :
           OkResponseJs(message, context, data)
    \/ \E statusCode \in ErrStatusCodes, message \in Messages,
          context \in Contexts, errorObject \in ErrorObjects :
           ErrResponseJs(statusCode, message, context, errorObject)
    \/ \E rid \in RequestIds, message \in Messages, data \in Datas,
          statusCode \in OkStatusCodes :
           OkResponseTs(rid, message, data, statusCode)
    \/ \E rid \in RequestIds, statusCode \in ErrStatusCodes,
          message \in Messages, errorObject \in ErrorObjects :
           ErrResponseTs(rid, statusCode, message, errorObject)

SpecResponse == Init /\ [][NextResponse]_vars

-----------------------------------------------------------------------------
(* Vocabulary of the properties                                            *)

Groups == 0..(batchCount - 1)

Called == pc # "idle"

Returned == pc \in {"resolved", "rejected"}

Settled(i) == req[i + 1] \in {"ok", "err"}

CeilDiv(a, b) == IF a % b = 0 THEN a \div b ELSE (a \div b) + 1

RECURSIVE Flatten(_)
Flatten(seqs) == IF seqs = <<>> THEN <<>> ELSE Head(seqs) \o Flatten(Tail(seqs))

(* The payloads of the commands sent, in the order they were sent.         *)
SentPayloads == [k \in 1..Len(sent) |-> sent[k].RequestItems[tableName]]

-----------------------------------------------------------------------------
(* C1: an items list of length L is split into exactly ceil(L/25) groups,  *)
(* every group but the last holds exactly 25 operations, the last holds    *)
(* between 1 and 25, and the groups concatenated in index order are the    *)
(* write operations in input order, one per item; once all of them are     *)
(* dispatched the payloads sent are these groups in this order.            *)
C1_Partition ==
    Called =>
        /\ Len(processedItems) = Len(items)
        /\ batchCount = CeilDiv(Len(items), 25)
        /\ Len(processedItemBatches) = batchCount
        /\ \A g \in 1..batchCount :
               /\ g < batchCount => Len(processedItemBatches[g]) = 25
               /\ Len(processedItemBatches[g]) \in 1..25
        /\ Flatten(processedItemBatches) = processedItems
        /\ pc # "map" => Flatten(SentPayloads) = processedItems

(* A call with 51 items has dispatched its three groups.                   *)
C1_Witness ==
    /\ pc = "await"
    /\ Len(items) = 51
    /\ batchCount = 3
    /\ Len(sent) = 3
    /\ Len(processedItemBatches[3]) = 1

(* C2 as stated: the call neither resolves nor rejects before every group  *)
(* request it dispatched has completed.                                    *)
C2_ReturnsAfterAllComplete ==
    Returned => \A i \in Groups : Settled(i)

(* C2 amended: the call does not resolve before every group request has    *)
(* completed, and it does not reject before the request of some group has  *)
(* failed; when it rejects, other groups may still be outstanding.         *)
C2_ReturnsAfterAllOrFirstFailure ==
    /\ pc = "resolved" => \A i \in Groups : Settled(i)
    /\ pc = "rejected" => \E i \in Groups : req[i + 1] = "err"
    /\ Returned => nextBatch = batchCount

(* The call has rejected on a failure while another request is in flight.  *)
C2_Witness ==
    /\ pc = "rejected"
    /\ \E i \in Groups : req[i + 1] = "err"
    /\ \E i \in Groups : req[i + 1] = "sent"

-----------------------------------------------------------------------------
(* More vocabulary                                                         *)

Failed == {i \in Groups : req[i + 1] = "err"}

Succeeded == {i \in Groups : req[i + 1] = "ok"}

AllSettled == \A i \in Groups : Settled(i)

(* Positions in the log of the records that carry an error.                *)
ErrorRecords == {k \in DOMAIN log : "error" \in DOMAIN log[k]}

(* Positions in the log of the per-group records of group i.               *)
GroupRecords(i) ==
    {k \in DOMAIN log :
        /\ "batch_number" \in DOMAIN log[k]
        /\ log[k].batch_number = BatchNumber(i, batchCount)}

(* The group whose request failed first in time.                           *)
FirstFailed ==
    LET k == CHOOSE n \in DOMAIN settleOrder :
                 /\ settleOrder[n] \in Failed
                 /\ \A m \in 1..(n - 1) : settleOrder[m] \notin Failed
    IN  settleOrder[k]

-----------------------------------------------------------------------------
(* C3 as stated: when exactly one group's request fails and all the others *)
(* succeed, the call rejects, and a log record captures the error of the   *)
(* failing group.                                                          *)
C3_OneFailureRejectsAndIsLogged ==
    (AllSettled /\ Cardinality(Failed) = 1) =>
        /\ pc # "resolved"
        /\ pc = "rejected" =>
               \E f \in Failed :
                   /\ thrown = result[f + 1]
                   /\ \E k \in ErrorRecords :
                          log[k].error = convertErrorObject(result[f + 1]).logger

(* What the code does where C3 fails (the defect, not the claim): when     *)
(* exactly one group's request fails and all the others                    *)
(* succeed, the call rejects with the error of the failing group; in the   *)
(* ts module the "Fail to batchWriteItem" record captures that error, in   *)
(* the js module no record carries it.                                     *)
C3_OneFailureRejectsLoggedInTs ==
    (AllSettled /\ Cardinality(Failed) = 1) =>
        /\ pc \in {"await", "rejected"}
        /\ promiseAll.state = "rejected"
        /\ pc = "rejected" =>
               \E f \in Failed :
                   /\ thrown = result[f + 1]
                   /\ variant = "ts" =>
                          \E k \in ErrorRecords :
                              /\ log[k].message = "Fail to batchWriteItem"
                              /\ log[k].error =
                                     convertErrorObject(result[f + 1]).logger
                   /\ variant = "js" => ErrorRecords = {}

(* Three groups, the last to settle the only one that failed, the call     *)
(* rejected.                                                               *)
C3_Witness ==
    /\ batchCount = 3
    /\ AllSettled
    /\ Cardinality(Failed) = 1
    /\ settleOrder[3] \in Failed
    /\ pc = "rejected"

(* C4: the call resolves only when every group has been dispatched and     *)
(* every request has succeeded: never with a group outstanding, never      *)
(* with a group failed.                                                    *)
C4_ResolvesOnlyWhenAllSucceeded ==
    pc = "resolved" =>
        /\ nextBatch = batchCount
        /\ Len(sent) = batchCount
        /\ \A i \in Groups : req[i + 1] = "ok"
        /\ thrown = NoValue

(* A call of three groups has resolved.                                    *)
C4_Witness ==
    /\ pc = "resolved"
    /\ batchCount = 3
    /\ Succeeded = Groups

(* C5 as stated: every group whose request has settled has exactly one     *)
(* record with its index, the group count, its payload and the response    *)
(* or error of the store.                                                  *)
C5_OneRecordPerSettledGroup ==
    \A i \in Groups :
        Settled(i) =>
            /\ Cardinality(GroupRecords(i)) = 1
            /\ \A k \in GroupRecords(i) :
                   /\ log[k].input = processedItemBatches[i + 1]
                   /\ \/ /\ "command_response" \in DOMAIN log[k]
                         /\ log[k].command_response = result[i + 1]
                      \/ /\ "error" \in DOMAIN log[k]
                         /\ log[k].error = result[i + 1]

(* What the code does where C5 fails (the defect, not the claim):          *)
(* every group whose request has succeeded has exactly one                 *)
(* record, with its index, the group count, its payload and the store's    *)
(* response; a group whose request is outstanding or has failed has none;  *)
(* and every record with a group index is the record of one group.         *)
C5_OneRecordPerSucceededGroup ==
    /\ \A i \in Groups :
           /\ Cardinality(GroupRecords(i)) = IF req[i + 1] = "ok" THEN 1 ELSE 0
           /\ \A k \in GroupRecords(i) :
                  log[k] = [message          |-> "Complete batchWrite",
                            batch_number     |-> BatchNumber(i, batchCount),
                            command_response |-> result[i + 1],
                            input            |-> processedItemBatches[i + 1]]
    /\ \A k \in DOMAIN log :
           "batch_number" \in DOMAIN log[k] => \E i \in Groups : k \in GroupRecords(i)

(* All three groups settled, one failed and two succeeded.                 *)
C5_Witness ==
    /\ batchCount = 3
    /\ AllSettled
    /\ Cardinality(Failed) = 1
    /\ Cardinality(Succeeded) = 2
    /\ Len(log) >= 2

(* C6 as stated: once the call has rejected, every group whose request     *)
(* failed has a record with its error, its index and count and its         *)
(* payload.                                                                *)
C6_EveryFailureLoggedWithContext ==
    pc = "rejected" =>
        \A f \in Failed :
            \E k \in ErrorRecords :
                /\ log[k].error = convertErrorObject(result[f + 1]).logger
                /\ "batch_number" \in DOMAIN log[k]
                /\ log[k].batch_number = BatchNumber(f, batchCount)
                /\ "input" \in DOMAIN log[k]
                /\ log[k].input = processedItemBatches[f + 1]

(* What the code does where C6 fails (the defect, not the claim):          *)
(* in the ts module a call that has rejected has logged one                *)
(* record with an error: the error of the group whose request failed       *)
(* first, with the action and the whole items list of the call and no      *)
(* group index, count or payload; that error is the one raised.  Groups    *)
(* that fail later add no record, and before the call rejects no record    *)
(* carries an error.                                                       *)
C6_FirstFailureLoggedAndRaised ==
    variant = "ts" =>
        /\ pc = "rejected" =>
               /\ thrown = result[FirstFailed + 1]
               /\ Cardinality(ErrorRecords) = 1
               /\ \A k \in ErrorRecords :
                      log[k] = [message |-> "Fail to batchWriteItem",
                                action  |-> action,
                                items   |-> items,
                                error   |-> convertErrorObject(
                                                result[FirstFailed + 1]).logger]
        /\ pc # "rejected" => ErrorRecords = {}

(* The ts call has rejected and two groups have failed.                    *)
C6_Witness ==
    /\ variant = "ts"
    /\ pc = "rejected"
    /\ Cardinality(Failed) >= 2
    /\ Len(items) > 25

(* C7: every group of the call is dispatched before the request of any    *)
(* group completes: in a state where some request has settled, every       *)
(* group has been sent and none is left to dispatch; the order of          *)
(* completion is free.                                                     *)
C7_AllDispatchedBeforeAnyCompletes ==
    (settleOrder # <<>> \/ \E i \in Groups : Settled(i)) =>
        /\ nextBatch = batchCount
        /\ Len(sent) = batchCount
        /\ \A i \in Groups : req[i + 1] # "none"

(* Three groups have completed in the order 2, 0, 1.                       *)
C7_Witness ==
    /\ batchCount = 3
    /\ settleOrder = <<2, 0, 1>>

(* C8: a request that has been sent stays in flight until it succeeds or   *)
(* fails, and while it is in flight both its success and its failure       *)
(* remain possible, whatever became of its siblings and of the call.       *)
C8_NoCancellation ==
    /\ [](\A i \in Groups :
              (req[i + 1] = "sent" /\ pc # "map") =>
                  /\ ENABLED SendOk(i)
                  /\ ENABLED (\E e \in StoreErrors(i) : SendFail(i, e)))
    /\ [][\A i \in Groups :
              req[i + 1] = "sent" => req'[i + 1] \in {"sent", "ok", "err"}]_vars

(* In the ts module a group has completed after the call rejected: its     *)
(* record follows the "Fail to batchWriteItem" record.                     *)
C8_Witness ==
    /\ variant = "ts"
    /\ pc = "rejected"
    /\ \E j, k \in DOMAIN log :
           /\ j < k
           /\ log[j].message = "Fail to batchWriteItem"
           /\ log[k].message = "Complete batchWrite"

(* C9: the store holds exactly the writes of the groups whose requests     *)
(* succeeded, also once the call has rejected: the writes of a group are   *)
(* applied whatever happens to the other groups, and nothing is undone.    *)
C9_NoAtomicityNoRollback ==
    applied = UNION { Writes(tableName, processedItemBatches[i + 1]) :
                          i \in Succeeded }

(* A call with more than 25 items has rejected on the failure of one       *)
(* group while the writes of another are in the store.                     *)
C9_Witness ==
    /\ pc = "rejected"
    /\ Len(items) > 25
    /\ Failed # {}
    /\ \E i \in Succeeded :
           /\ Writes(tableName, processedItemBatches[i + 1]) # {}
           /\ Writes(tableName, processedItemBatches[i + 1]) \subseteq applied
    /\ Cardinality(applied) < Len(items)

(* C10: each group is sent to the store once: a group that has been        *)
(* dispatched has exactly one command among those sent, whatever its       *)
(* outcome, a group not yet dispatched has none, and once the dispatch is  *)
(* over the number of commands sent is the number of groups.               *)
C10_EachGroupSentOnce ==
    /\ Len(sent) <= batchCount
    /\ \A i \in Groups :
           Cardinality({k \in DOMAIN sent :
                           sent[k] = BatchWriteCommand(tableName,
                                         processedItemBatches[i + 1])})
               = IF req[i + 1] = "none" THEN 0 ELSE 1
    /\ pc \in {"await", "resolved", "rejected"} => Len(sent) = batchCount

(* All three requests have settled, two of them failed, three commands     *)
(* were sent.                                                              *)
C10_Witness ==
    /\ batchCount = 3
    /\ AllSettled
    /\ Cardinality(Failed) = 2
    /\ Len(sent) = 3

-----------------------------------------------------------------------------
(* C11: with an empty items list no group is made, no command is sent, no  *)
(* record is logged, nothing is written, and the call does not reject: at  *)
(* its await the join is fulfilled already.                                *)
C11_EmptyListNoActivity ==
    (Called /\ Len(items) = 0) =>
        /\ batchCount = 0
        /\ processedItemBatches = <<>>
        /\ sent = <<>>
        /\ log = <<>>
        /\ applied = {}
        /\ settleOrder = <<>>
        /\ thrown = NoValue
        /\ pc \in {"map", "await", "resolved"}
        /\ pc = "await" => promiseAll.state = "fulfilled"

(* The call with no items has resolved.                                    *)
C11_Witness ==
    /\ pc = "resolved"
    /\ items = <<>>
    /\ tableName \in TableNames

(* C12: 25 items make one group of 25; 26 items make two groups, of 25     *)
(* and of 1, in this order.                                                *)
C12_BoundaryAt25 ==
    /\ (Called /\ Len(items) = 25) =>
           /\ batchCount = 1
           /\ Len(processedItemBatches) = 1
           /\ Len(processedItemBatches[1]) = 25
    /\ (Called /\ Len(items) = 26) =>
           /\ batchCount = 2
           /\ Len(processedItemBatches) = 2
           /\ Len(processedItemBatches[1]) = 25
           /\ Len(processedItemBatches[2]) = 1
           /\ processedItemBatches[2][1] = processedItems[26]

(* A call with 26 items has sent its two commands.                         *)
C12_Witness ==
    /\ Len(items) = 26
    /\ pc = "await"
    /\ Len(sent) = 2
    /\ Len(sent[2].RequestItems[tableName]) = 1

(* C13: the k-th write operation is made from the k-th item: for put a     *)
(* PutRequest with the item as Item and nothing else, for delete a         *)
(* DeleteRequest with the item as Key and nothing else; the commands sent  *)
(* carry these operations only.                                            *)
C13_OperationPerItem ==
    Called =>
        /\ Len(processedItems) = Len(items)
        /\ \A k \in 1..Len(items) :
               /\ action = "put" =>
                      /\ DOMAIN processedItems[k] = {"PutRequest"}
                      /\ DOMAIN processedItems[k].PutRequest = {"Item"}
                      /\ processedItems[k].PutRequest.Item = items[k]
               /\ action = "delete" =>
                      /\ DOMAIN processedItems[k] = {"DeleteRequest"}
                      /\ DOMAIN processedItems[k].DeleteRequest = {"Key"}
                      /\ processedItems[k].DeleteRequest.Key = items[k]
        /\ \A c \in 1..Len(sent) :
               \A k \in 1..Len(sent[c].RequestItems[tableName]) :
                   DOMAIN sent[c].RequestItems[tableName][k] =
                       IF action = "put" THEN {"PutRequest"} ELSE {"DeleteRequest"}

(* A delete of 51 keys has sent its three commands.                        *)
C13_Witness ==
    /\ Called
    /\ action = "delete"
    /\ Len(items) = 51
    /\ Len(sent) = 3

(* C14: every command sent carries between 1 and 25 write operations and   *)
(* names one table, the tableName of the call.                             *)
C14_RequestShape ==
    \A c \in 1..Len(sent) :
        /\ DOMAIN sent[c] = {"RequestItems"}
        /\ DOMAIN sent[c].RequestItems = {tableName}
        /\ Len(sent[c].RequestItems[tableName]) >= 1
        /\ Len(sent[c].RequestItems[tableName]) <= 25

(* Three commands were sent to the table users, the last with one write.   *)
C14_Witness ==
    /\ Called
    /\ tableName = "users"
    /\ Len(sent) = 3
    /\ Len(sent[3].RequestItems["users"]) = 1
    /\ Len(sent[1].RequestItems["users"]) = 25

-----------------------------------------------------------------------------
(* Positions in the log of the "Fail to batchWriteItem" records.           *)
FailRecords == {k \in DOMAIN log : log[k].message = "Fail to batchWriteItem"}

(* C20: in the ts module a call in which a group has failed never          *)
(* resolves; the step that rejects it appends the one "Fail to             *)
(* batchWriteItem" record, whose error is the converted error raised, the  *)
(* error of the group that failed first in time; after that step the call  *)
(* stays rejected with the same error and no such record is added,         *)
(* whatever fails later.                                                   *)
C20_OneFailRecordOneRejection ==
    /\ []((variant = "ts" /\ Failed # {}) =>
              /\ pc \in {"await", "rejected"}
              /\ promiseAll.state = "rejected"
              /\ promiseAll.reason = result[FirstFailed + 1])
    /\ [][variant = "ts" =>
              /\ (pc # "rejected" /\ pc' = "rejected") =>
                     /\ Failed # {}
                     /\ thrown' = result[FirstFailed + 1]
                     /\ FailRecords = {}
                     /\ log' = Append(log,
                                   [message |-> "Fail to batchWriteItem",
                                    action  |-> action,
                                    items   |-> items,
                                    error   |-> convertErrorObject(thrown').logger])
              /\ pc = "rejected" =>
                     /\ pc' = "rejected"
                     /\ thrown' = thrown
                     /\ FailRecords' = FailRecords
              /\ pc' # "rejected" => FailRecords' = {}]_vars

(* The ts call has rejected with the error of group 2, which failed        *)
(* first; group 0 failed after it.                                         *)
C20_Witness ==
    /\ variant = "ts"
    /\ pc = "rejected"
    /\ batchCount = 3
    /\ Failed = {0, 2}
    /\ FirstFailed = 2
    /\ thrown = result[3]
    /\ Cardinality(FailRecords) = 1

-----------------------------------------------------------------------------
(* C19: putItem, getItem, updateItem, deleteItem and scanTable of the ts   *)
(* module send one command per call, with the input of the call.  On       *)
(* success one record is logged, a "Complete" record with the input and    *)
(* the response, and the response of the store is returned as it is.  On   *)
(* failure one record is logged, a "Fail to" record with the input and the *)
(* converted error, and the error of the store itself is thrown; no second *)
(* command is sent.                                                        *)
C19_WrapperLogsAndReturnsOrRethrows ==
    (variant = "ts" /\ wrapper.pc # "idle" /\ wrapper.fn \in
         {"putItem", "getItem", "updateItem", "deleteItem", "scanTable"}) =>
        /\ Len(sent) = 1
        /\ sent[1].input = wrapper.input
        /\ wrapper.pc = "sent" =>
               /\ log = <<>>
               /\ returned = NoValue
               /\ thrown = NoValue
        /\ wrapper.pc = "returned" =>
               /\ returned = wrapper.answer
               /\ thrown = NoValue
               /\ Len(log) = 1
               /\ log[1].message \in
                      {"Complete putItem", "Complete getItem",
                       "Complete updateItem", "Complete deleteItem",
                       "Complete getItems"}
               /\ log[1].input = wrapper.input
               /\ log[1].command_response = wrapper.answer
        /\ wrapper.pc = "threw" =>
               /\ thrown = wrapper.answer
               /\ returned = NoValue
               /\ Len(log) = 1
               /\ log[1].message \in
                      {"Fail to putItem", "Fail to getItem",
                       "Fail to updateItem", "Fail to deleteItem",
                       "Fail to scanTable"}
               /\ log[1].input = wrapper.input
               /\ log[1].error = convertErrorObject(wrapper.answer).logger

(* scanTable has failed with an Error of the store and rethrown it.        *)
C19_Witness ==
    /\ variant = "ts"
    /\ wrapper.pc = "threw"
    /\ wrapper.fn = "scanTable"
    /\ "stack" \in DOMAIN thrown
    /\ log[1].message = "Fail to scanTable"

-----------------------------------------------------------------------------
(* Vocabulary of the response properties.                                  *)

(* A call of okResponse or errResponse of the given module has ended.      *)
Responded(module) ==
    /\ respCall.module = module
    /\ respCall.fn \in {"okResponse", "errResponse"}

(* The parsed JSON body of the response the call returned.                 *)
Body == respOutcome.value.body.json

(* The errorObject the call of errResponse works on: the argument, or the  *)
(* empty object when the argument was omitted.                             *)
GivenError == Default(respCall.errorObject, Obj(NoProps))

-----------------------------------------------------------------------------
(* C15: in the winston logger module, a response built in an invocation    *)
(* that did not call initializeContext has request_id null, and a response *)
(* built after initializeContext was given a context with an awsRequestId  *)
(* has that awsRequestId as its request_id.                                *)
C15_NullUnlessInitialized ==
    (Responded("winston") /\ respOutcome.kind = "returned") =>
        /\ ~respCall.initialized => Body.request_id = Null
        /\ (respCall.initialized
                /\ IsTruthy(Get(lastInitContext, "awsRequestId"))) =>
               Body.request_id = Get(lastInitContext, "awsRequestId")

-----------------------------------------------------------------------------
(* C16: in response.js, okResponse returns a response with statusCode 200, *)
(* the two CORS headers and a body of request_id, status_code 200, message *)
(* and data; request_id is the awsRequestId of the context when it has     *)
(* one, the context itself when it has none, and null when no context is   *)
(* given.  errResponse resolves request_id in the same way.                *)
C16_JsResponseCarriesResolvedRequestId ==
    Responded("js") =>
        LET context == Default(respCall.context, Null)
            rid == IF context = Null THEN Null
                   ELSE IF IsObject(context)
                           /\ "awsRequestId" \in DOMAIN context.props
                        THEN context.props.awsRequestId
                        ELSE context
        IN  /\ respOutcome.kind = "returned"
            /\ Body.request_id = rid
            /\ respCall.fn = "okResponse" =>
                   /\ respOutcome.value.statusCode = Num(200)
                   /\ respOutcome.value.headers = Headers
                   /\ Body = [request_id  |-> rid,
                              status_code |-> Num(200),
                              message     |-> respCall.message,
                              data        |-> Default(respCall.data,
                                                      Obj(NoProps))]

-----------------------------------------------------------------------------
(* C17: the ts okResponse returns a response whose statusCode is the       *)
(* statusCode argument when one is given and 200 when it is omitted.       *)
C17_StatusCodeArgumentOr200 ==
    (respCall.module = "ts" /\ respCall.fn = "okResponse") =>
        /\ respOutcome.kind = "returned"
        /\ respOutcome.value.statusCode =
               (IF respCall.statusCode = Undefined
                THEN Num(200) ELSE respCall.statusCode)

(* okResponse was called with statusCode 201 and answered with it.         *)
C17_Witness ==
    /\ respCall.module = "ts"
    /\ respCall.fn = "okResponse"
    /\ respCall.statusCode = Num(201)
    /\ respOutcome.value.statusCode = Num(201)

-----------------------------------------------------------------------------
(* C18: when errorObject has truthy name, stack and message the  *)
(* error in the response body is exactly name and message; in every other  *)
(* case the body holds the errorObject unchanged.                          *)
C18_OtherwiseUnchanged ==
    (respCall.module \in {"winston", "js", "ts"}
        /\ respCall.fn = "errResponse") =>
        /\ respOutcome.kind = "returned"
        /\ Body.error =
               (IF IsRichError(GivenError)
                THEN Obj([name    |-> GivenError.props.name,
                          message |-> GivenError.props.message])
                ELSE GivenError)

(* What the code does where C18 fails (the defect, not the claim): when    *)
(* errorObject has truthy name, stack and message the error in             *)
(* the response body is exactly name and message; in every other case the  *)
(* body holds what JSON keeps of the errorObject: null for null, a plain   *)
(* object as it is, and of an Error instance only the properties that are  *)
(* its own and enumerable, so without its name, message and stack.         *)
C18_ErrorShapeByFieldPresence ==
    (respCall.module \in {"winston", "js", "ts"}
        /\ respCall.fn = "errResponse") =>
        /\ respOutcome.kind = "returned"
        /\ Body.error =
               (IF IsRichError(GivenError)
                THEN Obj([name    |-> GivenError.props.name,
                          message |-> GivenError.props.message])
                ELSE IF GivenError.type = "error"
                THEN Obj([k \in (DOMAIN GivenError.props)
                                    \ {"name", "message", "stack"} |->
                              GivenError.props[k]])
                ELSE GivenError)

(* errResponse of the winston module was given an Error with an empty      *)
(* message, and the body holds an empty object as its error.               *)
C18_Witness ==
    /\ respCall.module = "winston"
    /\ respCall.fn = "errResponse"
    /\ respCall.errorObject.type = "error"
    /\ ~IsRichError(respCall.errorObject)
    /\ Body.error = Obj(NoProps)

-----------------------------------------------------------------------------
(* C21: if every request handed to the store is answered in the end, with  *)
(* success or with failure, a call of batchWriteItem resolves or rejects   *)
(* in the end; and a call whose group requests have all settled does not   *)
(* stay pending.                                                           *)
C21_CallSettlesWhenRequestsDo ==
    /\ (\A i \in 0..(CeilDiv(MaxLen, BATCH_SIZE) - 1) :
            [](Outstanding(i) => <>(~Outstanding(i))))
           => (Called ~> Returned)
    /\ (Called /\ AllSettled) ~> Returned

(* A call of two groups has rejected, and both its requests have settled.  *)
C21_Witness ==
    /\ pc = "rejected"
    /\ batchCount = 2
    /\ AllSettled
    /\ Failed = {1}

-----------------------------------------------------------------------------
(* C22: in the winston logger module the request_id of every response body *)
(* is the awsRequestId of the context the latest call of initializeContext *)
(* was given, or null when that context had none or initializeContext was  *)
(* never called; an invocation that does not call initializeContext again  *)
(* answers with the request id of the invocation before it.                *)
C22_RequestIdOfLatestInitializeContext ==
    (Responded("winston") /\ respOutcome.kind = "returned") =>
        Body.request_id =
            (IF IsObject(lastInitContext)
                /\ "awsRequestId" \in DOMAIN lastInitContext.props
             THEN lastInitContext.props.awsRequestId
             ELSE Null)

(* A response built in an invocation that did not call initializeContext   *)
(* carries req-2, the request id of an earlier invocation.                 *)
C22_Witness ==
    /\ Responded("winston")
    /\ ~respCall.initialized
    /\ Body.request_id = Str("req-2")

-----------------------------------------------------------------------------
(* C23: in every response okResponse or errResponse builds, in each of the *)
(* three response modules, the status code inside the JSON body            *)
(* (status_code, or statusCode in the ts module) is the statusCode of the  *)
(* response itself.                                                        *)
C23_BodyStatusIsResponseStatus ==
    /\ ((Responded("winston") \/ Responded("js"))
            /\ respOutcome.kind = "returned") =>
           Body.status_code = respOutcome.value.statusCode
    /\ (Responded("ts") /\ respOutcome.kind = "returned") =>
           Body.statusCode = respOutcome.value.statusCode

-----------------------------------------------------------------------------
(* The stacks an error object is given in the comparison.                  *)
Stacks == {Str("trace"), Str("other trace")}

(* The error object with its stack replaced.                               *)
WithStack(e, stack) == [e EXCEPT !.props = [@ EXCEPT !.stack = stack]]

(* The body errResponse returns for the arguments of the call that was     *)
(* made, with errorObject in the place of the error object of the call.    *)
BodyFor(errorObject) ==
    IF respCall.module = "winston"
    THEN errResponseWinston(respCall.statusCode, respCall.message,
                            errorObject).value.body
    ELSE IF respCall.module = "js"
    THEN errResponseJs(respCall.statusCode, respCall.message,
                       respCall.context, errorObject).value.body
    ELSE errResponseTs(respCall.requestId, respCall.statusCode,
                       respCall.message, errorObject).value.body

(* C24: the body errResponse returns does not depend on the stack of the   *)
(* error object: for two error objects that differ in the value of their   *)
(* stack only, the other arguments being equal, the bodies are identical,  *)
(* so that no stack trace reaches the client.                              *)
C24_BodyIndependentOfStack ==
    (respCall.module \in {"winston", "js", "ts"}
        /\ respCall.fn = "errResponse"
        /\ IsObject(GivenError)
        /\ "stack" \in DOMAIN GivenError.props) =>
        \A stack \in Stacks :
            BodyFor(WithStack(GivenError, stack)) = respOutcome.value.body

=============================================================================
